---- MODULE Spec2Model ----
(***************************************************************************)
(* A model of telemetry-bench (cmd/telemetry-bench.go): the expansion of   *)
(* a plugin template into metric messages, the construction of the         *)
(* simulated hosts, the checks main() makes of its command line, the       *)
(* simulate-mode pipeline of main() (one generation goroutine, sendThreads *)
(* sender goroutines, one acknowledgement goroutine, the channels mesgChan *)
(* and ackChan, the two WaitGroups and the two cancellation channels), and *)
(* the limit mode of getMessagesLimit().                                   *)
(*                                                                         *)
(* Strings are tuples of their parts: "" is << >>, "uptime" is             *)
(* <<"uptime">>, fmt.Sprintf("type%d", k) is <<"type%d", k>>.  A nil       *)
(* pointer is << >> and &x is <<x>>.  A nil slice is << >>.  A metric      *)
(* message (one JSON array in the source) is the tuple of the fields the   *)
(* source writes into it, in the order it writes them; the wall-clock      *)
(* "time" field is left out.                                               *)
(***************************************************************************)
EXTENDS Integers, Sequences, FiniteSets, Bags

VARIABLES
    cfg,            \* the parsed command line (the flag.* values of main)
    broker,         \* environment: the outcome kinds the transport may report
    rnd,            \* environment: the stream the value functions sample
    tmpl,           \* SpecExpand: the plugin template under expansion
    expanded,       \* SpecExpand: the result of GetMetricMessage on tmpl
    mainpc,         \* position of main()
    exit,           \* "running", or how the process ended (see ExitCode)
    hosts,          \* main: hosts
    con,            \* the transport connection: "none", "open", "closed"
    err,            \* main: err of con.Sender (line 449)
    mesgChan,       \* main: mesgChan, capacity 200
    ackChan,        \* main: ackChan, capacity 100
    inflight,       \* sends whose outcome the transport has not yet reported
    countAck,       \* main: countAck
    sendCount,      \* main: sendCount[threadIndex]
    totalSendCount, \* main: totalSendCount[threadIndex]
    loaded,         \* sender: the value of sendCount[threadIndex] read by ++
    spc,            \* position of each sender goroutine
    ackpc,          \* position of the acknowledgement goroutine
    gen,            \* the generation goroutine: position and locals
    cancel,         \* TRUE once close(cancel)
    cancelMesg,     \* TRUE once close(cancelMesg)
    limit,          \* getMessagesLimit: its sender goroutine and countSent
    wait,           \* WaitGroup wait: its counter
    waitb,          \* WaitGroup waitb: its counter
    consumed,       \* history: the bag of outcomes read from ackChan
    writers,        \* history: which goroutine has written which counter
    linkUsers,      \* history: which sender goroutine has sent on which link
    conCloses,      \* history: number of con.Close calls
    enqueued,       \* history: number of sends on mesgChan
    dequeued,       \* history: number of receives from mesgChan
    tokens          \* history: the Values passed to SendAsync, per sender

vars == <<cfg, broker, rnd, tmpl, expanded, mainpc, exit, hosts, con, err,
          mesgChan, ackChan, inflight, countAck, sendCount, totalSendCount,
          loaded, spc, ackpc, gen, cancel, cancelMesg, limit, wait, waitb,
          consumed, writers, linkUsers, conCloses, enqueued, dequeued,
          tokens>>

----------------------------------------------------------------------------
(* Bounds of the model.                                                    *)

\* SpecExpand: longest axis of a template
MaxAxis == 3
\* largest -hosts
MaxHosts == 2
\* largest -plugins
MaxPlugins == 2
\* SpecGen: largest -types
MaxTypes == 3
\* SpecGen: largest -instances and -typeinstances
MaxInstances == 2
\* largest -send, and the tick at which -send -1 is cut off
MaxSend == 2
\* largest -threads of a run whose transport stays silent
MaxThreads == 2
\* limit mode: iterations of the sender loop the model follows
MaxRounds == 2
\* most messages of a run whose transport stays silent
MaxMessages == 3
\* largest -threads of a run whose transport reports outcomes
MaxAckThreads == 1
\* most messages of a run whose transport reports outcomes
MaxAcked == 2
\* SpecFlood: -instances and -typeinstances of the flooding run
FloodInstances == 15

(* Program constants.                                                      *)

\* make(chan amqp.Message, 200)
MesgChanCap == 200
\* make(chan electron.Outcome, 100)
AckChanCap == 100

----------------------------------------------------------------------------
(* Go built-ins and the strings of the program.                            *)

len(s) == Len(s)

\* Every slice of this program is a literal, nil, or make([]T, n): its
\* capacity is its length.
cap(s) == Len(s)

EmptyString == << >>

nil == << >>

\* make([]string, n)
make(n) == [k \in 1..n |-> EmptyString]

Sprintf(format, n) == <<format, n>>

hostnameTemplate == "hostname%03d"

metricsTemplate == "metrics%03d"

----------------------------------------------------------------------------
(* plugin.GetMetricMessage                                                 *)

\* m.values[i](): uptimeFunc reads the clock and randomFloatFunc the random
\* source; the n-th call of one expansion returns the n-th sample.
pluginFunc(f, samples, n) == <<f, samples[(n % Len(samples)) + 1]>>

\* The string one iteration of the innermost loop builds (lines 83-136).
MetricString(m, samples, calls, typeOffset, pluginInstOffset, typeInstOffset) ==
    << [i \in 1..len(m.values) |-> pluginFunc(m.values[i], samples, calls + i - 1)],
       m.dstypes,
       m.dsnames,
       m.interval,
       m.hostname[1],
       m.name,
       m.pluginInstance[pluginInstOffset + 1],
       m.mtype[typeOffset + 1],
       m.typeInstance[typeInstOffset + 1] >>

\* Can the body of the innermost loop run without a run-time panic?
BodyPanics(m, st, typeOffset, pluginInstOffset, typeInstOffset) ==
    \/ m.hostname = nil
    \/ pluginInstOffset >= len(m.pluginInstance)
    \/ typeOffset >= len(m.mtype)
    \/ typeInstOffset >= len(m.typeInstance)
    \/ st.msgCount >= len(st.buffers)

\* Mutant of LoopBody: the slice is filled from its end.
LoopBody_Reversed(m, samples, st, typeOffset, pluginInstOffset, typeInstOffset) ==
    IF BodyPanics(m, st, typeOffset, pluginInstOffset, typeInstOffset)
    THEN [st EXCEPT !.panic = TRUE]
    ELSE [st EXCEPT
            !.buffers[len(st.buffers) - st.msgCount] =
                MetricString(m, samples, st.calls,
                             typeOffset, pluginInstOffset, typeInstOffset),
            !.msgCount = st.msgCount + 1,
            !.calls = st.calls + len(m.values)]

\* Lines 83-139: build one string, store it, count it.
LoopBody(m, samples, st, typeOffset, pluginInstOffset, typeInstOffset) ==
    IF BodyPanics(m, st, typeOffset, pluginInstOffset, typeInstOffset)
    THEN [st EXCEPT !.panic = TRUE]
    ELSE [st EXCEPT
            !.buffers[st.msgCount + 1] =
                MetricString(m, samples, st.calls,
                             typeOffset, pluginInstOffset, typeInstOffset),
            !.msgCount = st.msgCount + 1,
            !.calls = st.calls + len(m.values)]

RECURSIVE typeInstLoop(_, _, _, _, _, _)
typeInstLoop(m, samples, st, typeOffset, pluginInstOffset, typeInstOffset) ==
    IF st.panic \/ ~(typeInstOffset < cap(m.typeInstance))
    THEN st
    ELSE typeInstLoop(m, samples,
             LoopBody(m, samples, st, typeOffset, pluginInstOffset, typeInstOffset),
             typeOffset, pluginInstOffset, typeInstOffset + 1)

RECURSIVE pluginInstLoop(_, _, _, _, _)
pluginInstLoop(m, samples, st, typeOffset, pluginInstOffset) ==
    IF st.panic \/ ~(pluginInstOffset < cap(m.pluginInstance))
    THEN st
    ELSE pluginInstLoop(m, samples,
             typeInstLoop(m, samples, st, typeOffset, pluginInstOffset, 0),
             typeOffset, pluginInstOffset + 1)

RECURSIVE typeLoop(_, _, _, _)
typeLoop(m, samples, st, typeOffset) ==
    IF st.panic \/ ~(typeOffset < cap(m.mtype))
    THEN st
    ELSE typeLoop(m, samples,
             pluginInstLoop(m, samples, st, typeOffset, 0),
             typeOffset + 1)

\* Mutant of bufferSize: the plugin-instance axis is forgotten.
bufferSize_NoPluginInstance(m) == len(m.mtype) * len(m.typeInstance)

\* bufferSize := len(m.mtype) * len(m.typeInstance) * len(m.pluginInstance)
bufferSize(m) == len(m.mtype) * len(m.typeInstance) * len(m.pluginInstance)

\* The result: the returned buffers, whether the call panicked, and the
\* number of value-function calls it made.
GetMetricMessage(m, samples) ==
    typeLoop(m, samples,
             [buffers |-> make(bufferSize(m)), msgCount |-> 0,
              calls |-> 0, panic |-> FALSE],
             0)

----------------------------------------------------------------------------
(* generateHosts                                                           *)

\* for k := 0; k < n; k++ { s[k] = fmt.Sprintf(format, k) }
RECURSIVE fillLoop(_, _, _, _)
fillLoop(s, k, n, format) ==
    IF ~(k < n) THEN [panic |-> FALSE, s |-> s]
    ELSE IF k >= len(s) THEN [panic |-> TRUE, s |-> s]
    ELSE fillLoop([s EXCEPT ![k + 1] = Sprintf(format, k)], k + 1, n, format)

\* hosts[i].plugins[0], lines 167-177
uptimePlugin(hName) ==
    [values |-> <<"uptimeFunc">>,
     name |-> <<"uptime">>,
     hostname |-> <<hName>>,
     dstypes |-> << <<"gauge">> >>,
     dsnames |-> << <<"value">> >>,
     interval |-> 5,
     pluginInstance |-> <<EmptyString>>,
     mtype |-> << <<"uptime">> >>,
     typeInstance |-> <<EmptyString>>]

\* The zero value of plugin: what make([]plugin, n) holds.
zeroPlugin ==
    [values |-> nil, name |-> EmptyString, hostname |-> nil,
     dstypes |-> nil, dsnames |-> nil, interval |-> 0,
     pluginInstance |-> nil, mtype |-> nil, typeInstance |-> nil]

\* hosts[i].plugins[j] for j >= 1, lines 180-197.  All three fill loops run
\* to numTypes, whatever the length of the slice they fill.
syntheticPlugin(hName, j, intervalSec, numTypes, numTypeInstances, numPluginInstances) ==
    LET ty == fillLoop(make(numTypes), 0, numTypes, "type%d")
        ti == fillLoop(make(numTypeInstances), 0, numTypes, "typInst%d")
        pi == fillLoop(make(numPluginInstances), 0, numTypes, "pluginInst%d")
    IN  [panic |-> ty.panic \/ ti.panic \/ pi.panic,
         plugin |-> [values |-> <<"randomFloatFunc">>,
                     name |-> Sprintf(metricsTemplate, j),
                     hostname |-> <<hName>>,
                     dstypes |-> << <<"derive">> >>,
                     dsnames |-> << <<"samples">> >>,
                     interval |-> intervalSec,
                     pluginInstance |-> pi.s,
                     mtype |-> ty.s,
                     typeInstance |-> ti.s]]

\* One iteration of the loop over the hosts, lines 160-198.
generateHost(hostPrefix, i, numPlugins, intervalSec, numTypes, numTypeInstances, numPluginInstances) ==
    LET hName == <<hostPrefix, Sprintf(hostnameTemplate, i)>>
        syn(j) == syntheticPlugin(hName, j, intervalSec, numTypes,
                                  numTypeInstances, numPluginInstances)
    IN  [panic |-> \E j \in 1..(numPlugins - 1) : syn(j).panic,
         host |-> [name |-> hName,
                   plugins |-> [j \in 0..numPlugins |->
                                   IF j = 0 THEN uptimePlugin(hName)
                                   ELSE IF j < numPlugins THEN syn(j).plugin
                                   ELSE zeroPlugin]]]

\* The result: the hosts, and whether the call panicked (index out of range).
\* plugins is indexed from 0, as in the source.
generateHosts(hostPrefix, numHosts, numPlugins, intervalSec, numTypes, numTypeInstances, numPluginInstances) ==
    LET h(i) == generateHost(hostPrefix, i, numPlugins, intervalSec,
                             numTypes, numTypeInstances, numPluginInstances)
    IN  [panic |-> \E i \in 0..(numHosts - 1) : h(i).panic,
         hosts |-> [i \in 0..(numHosts - 1) |-> h(i).host]]

----------------------------------------------------------------------------
(* main(): the state its goroutines share.                                 *)

\* The command line after flag.Parse (lines 298-319): the flags, and urls,
\* the number of arguments left.  Here: one address and -mode simulate.
Config(hostsNum, pluginNum, typeNum, pluginInstanceNum, typeInstanceNum, metricMaxSend, showTimePerMessages, sendThreads, spread) ==
    [urls |-> 1,
     modeString |-> "simulate",
     hostsNum |-> hostsNum,
     spread |-> spread,
     prefixString |-> EmptyString,
     pluginNum |-> pluginNum,
     typeNum |-> typeNum,
     pluginInstanceNum |-> pluginInstanceNum,
     typeInstanceNum |-> typeInstanceNum,
     intervalSec |-> 1,
     metricMaxSend |-> metricMaxSend,
     showTimePerMessages |-> showTimePerMessages,
     sendThreads |-> sendThreads]

\* threadIndex ranges over 0 .. *sendThreads - 1 (line 451)
Workers == 0..(cfg.sendThreads - 1)

\* electron.Outcome without its Value: the three kinds the goroutine of
\* lines 486-503 tells apart.
Accepted == [Status |-> "Accepted", Error |-> "nil"]

Rejected == [Status |-> "Rejected", Error |-> "nil"]

Failed == [Status |-> "Unsent", Error |-> "error"]

OutcomeKinds == {Accepted, Rejected, Failed}

Outcome(kind, value) ==
    [Status |-> kind.Status, Error |-> kind.Error, Value |-> value]

\* The goroutines, as the writers of the shared counters.
GenTask == <<"generation", 0>>

SenderTask(threadIndex) == <<"sender", threadIndex>>

AckTask == <<"ack", 0>>

\* s, err := con.Sender(...) (line 449): the one link main opens.
Links == {"s"}

\* The link a sender goroutine sends on: s.SendAsync (line 467).
SenderLink(threadIndex) == "s"

Running == exit = "running"

\* The locals of the generation goroutine before it starts.
GenIdle ==
    [pc |-> "idle", i |-> 0, index |-> 0, host |-> 0, plugin |-> 0,
     metrics |-> << >>, next |-> 0, genCount |-> 0, sleeps |-> 0]

\* The locals of getMessagesLimit before it is called.
LimitIdle == [pc |-> "idle", countSent |-> 0, rounds |-> 0, selects |-> 0]

\* The state after flag.Parse (line 319), for a command line c,
\* a transport reporting the outcome kinds b and a sample stream r.
Start(c, b, r) ==
    /\ cfg = c
    /\ broker = b
    /\ rnd = r
    /\ mainpc = "args"
    /\ exit = "running"
    /\ hosts = << >>
    /\ con = "none"
    /\ err = FALSE
    /\ mesgChan = << >>
    /\ ackChan = << >>
    /\ inflight = {}
    /\ countAck = 0
    /\ sendCount = [w \in 0..(c.sendThreads - 1) |-> 0]
    /\ totalSendCount = [w \in 0..(c.sendThreads - 1) |-> 0]
    /\ loaded = [w \in 0..(c.sendThreads - 1) |-> 0]
    /\ spc = [w \in 0..(c.sendThreads - 1) |-> "idle"]
    /\ ackpc = "idle"
    /\ gen = GenIdle
    /\ cancel = FALSE
    /\ cancelMesg = FALSE
    /\ limit = LimitIdle
    /\ wait = 0
    /\ waitb = 0
    /\ consumed = EmptyBag
    /\ writers = [sendCount |-> [w \in 0..(c.sendThreads - 1) |-> {}],
                  totalSendCount |-> [w \in 0..(c.sendThreads - 1) |-> {}],
                  countAck |-> {}]
    /\ linkUsers = [l \in Links |-> {}]
    /\ conCloses = 0
    /\ enqueued = 0
    /\ dequeued = 0
    /\ tokens = [w \in 0..(c.sendThreads - 1) |-> << >>]

\* No expansion outside main is under way.
NoTemplate ==
    /\ tmpl = zeroPlugin
    /\ expanded = [done |-> FALSE, buffers |-> << >>, calls |-> 0, panic |-> FALSE]

envVars == <<cfg, broker, rnd, tmpl, expanded>>

chanVars == <<mesgChan, ackChan, inflight>>

senderVars == <<sendCount, totalSendCount, loaded, spc>>

histVars == <<consumed, writers, linkUsers, conCloses, enqueued, dequeued,
              tokens>>

----------------------------------------------------------------------------
(* main(), lines 319-367 and 505-509.                                      *)

\* Lines 319-328: the address argument is missing or given more than once:
\* usage() and os.Exit(1).
MainArgs ==
    /\ Running /\ mainpc = "args"
    /\ IF cfg.urls = 0 \/ cfg.urls > 1
       THEN /\ exit' = "usage"
            /\ UNCHANGED mainpc
       ELSE /\ mainpc' = "generate"
            /\ UNCHANGED exit
    /\ UNCHANGED <<envVars, limit, hosts, con, err, chanVars, countAck,
                   senderVars, ackpc, gen, cancel, cancelMesg, wait, waitb,
                   histVars>>

\* hosts := generateHosts(...) (line 346); an index out of range panics.
MainGenerateHosts ==
    /\ Running /\ mainpc = "generate"
    /\ LET r == generateHosts(cfg.prefixString, cfg.hostsNum, cfg.pluginNum,
                              cfg.intervalSec, cfg.typeNum,
                              cfg.typeInstanceNum, cfg.pluginInstanceNum)
       IN  IF r.panic
           THEN /\ exit' = "panic"
                /\ UNCHANGED <<hosts, mainpc>>
           ELSE /\ hosts' = r.hosts
                /\ mainpc' = "mode"
                /\ UNCHANGED exit
    /\ UNCHANGED <<envVars, limit, con, err, chanVars, countAck, senderVars, ackpc,
                   gen, cancel, cancelMesg, wait, waitb, histVars>>

\* Lines 348-354: limit mode calls getMessagesLimit; any mode other than
\* limit and simulate prints "Invalid mode string" and returns from main.
MainMode ==
    /\ Running /\ mainpc = "mode"
    /\ IF cfg.modeString = "limit"
       THEN /\ mainpc' = "limit"
            /\ UNCHANGED exit
       ELSE IF cfg.modeString # "simulate"
       THEN /\ mainpc' = "returned"
            /\ exit' = "ok"
       ELSE /\ mainpc' = "start"
            /\ UNCHANGED exit
    /\ UNCHANGED <<envVars, limit, hosts, con, err, chanVars, countAck,
                   senderVars, ackpc, gen, cancel, cancelMesg, wait, waitb,
                   histVars>>

\* Lines 356-503: dial (log.Fatal on failure), make the channels and the
\* counters, start the generation goroutine, open the link, start the
\* sender goroutines and the acknowledgement goroutine.
MainStart ==
    /\ Running /\ mainpc = "start"
    /\ \E dialed \in BOOLEAN, linkErr \in BOOLEAN :
         IF ~dialed
         THEN \* log.Fatal(err), lines 358-366
              /\ exit' = "fatal"
              /\ UNCHANGED <<mainpc, con, err, spc, ackpc, gen, wait, waitb>>
         ELSE IF cfg.spread /\ cfg.hostsNum = 0
         THEN \* line 384 divides by len(hosts)
              /\ exit' = "panic"
              /\ con' = "open"
              /\ UNCHANGED <<mainpc, err, spc, ackpc, gen, wait, waitb>>
         ELSE /\ con' = "open"
              /\ wait' = wait + 1
              /\ gen' = [gen EXCEPT !.pc = "check"]
              /\ err' = linkErr
              /\ waitb' = waitb + cfg.sendThreads + 1
              /\ spc' = [w \in Workers |-> "start"]
              /\ ackpc' = "select"
              /\ mainpc' = "wait"
              /\ UNCHANGED exit
    /\ UNCHANGED <<envVars, limit, hosts, chanVars, countAck, sendCount,
                   totalSendCount, loaded, cancel, cancelMesg, histVars>>

\* wait.Wait() (line 505)
MainWait ==
    /\ Running /\ mainpc = "wait"
    /\ wait = 0
    /\ mainpc' = "closeCancelMesg"
    /\ UNCHANGED <<envVars, limit, exit, hosts, con, err, chanVars, countAck,
                   senderVars, ackpc, gen, cancel, cancelMesg, wait, waitb,
                   histVars>>

\* close(cancelMesg) (line 506)
MainCloseCancelMesg ==
    /\ Running /\ mainpc = "closeCancelMesg"
    /\ cancelMesg' = TRUE
    /\ mainpc' = "closeCancel"
    /\ UNCHANGED <<envVars, limit, exit, hosts, con, err, chanVars, countAck,
                   senderVars, ackpc, gen, cancel, wait, waitb, histVars>>

\* close(cancel) (line 507)
MainCloseCancel ==
    /\ Running /\ mainpc = "closeCancel"
    /\ cancel' = TRUE
    /\ mainpc' = "waitb"
    /\ UNCHANGED <<envVars, limit, exit, hosts, con, err, chanVars, countAck,
                   senderVars, ackpc, gen, cancelMesg, wait, waitb, histVars>>

\* Mutant of MainWaitb: main does not wait for the goroutines.
MainWaitb_NoWait ==
    /\ Running /\ mainpc = "waitb"
    /\ mainpc' = "close"
    /\ UNCHANGED <<envVars, limit, exit, hosts, con, err, chanVars, countAck,
                   senderVars, ackpc, gen, cancel, cancelMesg, wait, waitb,
                   histVars>>

\* waitb.Wait() (line 508)
MainWaitb ==
    /\ Running /\ mainpc = "waitb"
    /\ waitb = 0
    /\ mainpc' = "close"
    /\ UNCHANGED <<envVars, limit, exit, hosts, con, err, chanVars, countAck,
                   senderVars, ackpc, gen, cancel, cancelMesg, wait, waitb,
                   histVars>>

\* con.Close(nil) (line 509), and main returns: the process exits with 0.
MainConClose ==
    /\ Running /\ mainpc = "close"
    /\ con' = "closed"
    /\ conCloses' = conCloses + 1
    /\ mainpc' = "returned"
    /\ exit' = "ok"
    /\ UNCHANGED <<envVars, limit, hosts, err, chanVars, countAck, senderVars,
                   ackpc, gen, cancel, cancelMesg, wait, waitb, consumed,
                   writers, linkUsers, enqueued, dequeued, tokens>>

----------------------------------------------------------------------------
(* The generation goroutine, lines 391-439.                                *)

\* Mutant of LoopEnds: the comparison is off by one.
LoopEnds_OffByOne(i) == i > cfg.metricMaxSend /\ cfg.metricMaxSend # -1

\* Line 394: if i >= *metricMaxSend && *metricMaxSend != -1
LoopEnds(i) == i >= cfg.metricMaxSend /\ cfg.metricMaxSend # -1

\* Line 394, the loop is left: "done...", break, and the deferred wait.Done().
GenDone ==
    /\ Running /\ gen.pc = "check"
    /\ LoopEnds(gen.i)
    /\ gen' = [gen EXCEPT !.pc = "done"]
    /\ wait' = wait - 1
    /\ UNCHANGED <<envVars, limit, mainpc, exit, hosts, con, err, chanVars, countAck,
                   senderVars, ackpc, cancel, cancelMesg, waitb, histVars>>

\* Lines 394-401, the loop goes on: a tick starts.  With -send -1 the loop
\* has no end; the model follows it for MaxSend ticks.
GenTick ==
    /\ Running /\ gen.pc = "check"
    /\ ~LoopEnds(gen.i)
    /\ cfg.metricMaxSend = -1 => gen.i < MaxSend
    /\ gen' = [gen EXCEPT !.pc = "reset", !.index = 0, !.genCount = 0,
                          !.sleeps = 0]
    /\ UNCHANGED <<envVars, limit, mainpc, exit, hosts, con, err, chanVars, countAck,
                   senderVars, ackpc, cancel, cancelMesg, wait, waitb,
                   histVars>>

\* Lines 402-407: one iteration of the loop over the threads (it prints
\* totalSendCount[index] and writes sendCount[index] = 0), or its end.
GenReset ==
    /\ Running /\ gen.pc = "reset"
    /\ IF gen.index < cfg.sendThreads
       THEN /\ sendCount' = [sendCount EXCEPT ![gen.index] = 0]
            /\ writers' = [writers EXCEPT
                             !.sendCount[gen.index] = @ \cup {GenTask}]
            /\ gen' = [gen EXCEPT !.index = gen.index + 1]
       ELSE /\ gen' = [gen EXCEPT !.pc = "host", !.host = 0]
            /\ UNCHANGED <<sendCount, writers>>
    /\ UNCHANGED <<envVars, limit, mainpc, exit, hosts, con, err, chanVars, countAck,
                   totalSendCount, loaded, spc, ackpc, cancel, cancelMesg,
                   wait, waitb, consumed, linkUsers, conCloses, enqueued,
                   dequeued, tokens>>

\* Lines 409-412: the next host of range hosts; in spread mode sleepFunc()
\* runs before the host's plugins are expanded.  After the last host the
\* tick goes to line 430.
GenHost ==
    /\ Running /\ gen.pc = "host"
    /\ IF gen.host < cfg.hostsNum
       THEN gen' = [gen EXCEPT !.pc = "plugin", !.plugin = 0,
                               !.sleeps = IF cfg.spread THEN @ + 1 ELSE @]
       ELSE gen' = [gen EXCEPT !.pc = "sleep"]
    /\ UNCHANGED <<envVars, limit, mainpc, exit, hosts, con, err, chanVars, countAck,
                   senderVars, ackpc, cancel, cancelMesg, wait, waitb,
                   histVars>>

\* Lines 413-419: the next plugin w of range v.plugins and
\* metrics := w.GetMetricMessage(); after the last plugin, the next host.
GenPlugin ==
    /\ Running /\ gen.pc = "plugin"
    /\ LET plugins == hosts[gen.host].plugins
       IN  IF gen.plugin < Cardinality(DOMAIN plugins)
           THEN LET r == GetMetricMessage(plugins[gen.plugin], rnd)
                IN  IF r.panic
                    THEN /\ exit' = "panic"
                         /\ UNCHANGED gen
                    ELSE /\ gen' = IF len(r.buffers) = 0
                                   THEN [gen EXCEPT !.plugin = gen.plugin + 1]
                                   ELSE [gen EXCEPT !.pc = "enqueue",
                                                    !.metrics = r.buffers,
                                                    !.next = 0]
                         /\ UNCHANGED exit
           ELSE /\ gen' = [gen EXCEPT !.pc = "host", !.host = gen.host + 1]
                /\ UNCHANGED exit
    /\ UNCHANGED <<envVars, limit, mainpc, hosts, con, err, chanVars, countAck,
                   senderVars, ackpc, cancel, cancelMesg, wait, waitb,
                   histVars>>

\* Mutant of GenEnqueue: the send does not block on a full channel.
GenEnqueue_NoBackpressure ==
    /\ Running /\ gen.pc = "enqueue"
    /\ mesgChan' = Append(mesgChan, gen.metrics[gen.next + 1])
    /\ gen' = IF gen.next + 1 < len(gen.metrics)
              THEN [gen EXCEPT !.next = gen.next + 1,
                               !.genCount = gen.genCount + 1]
              ELSE [gen EXCEPT !.pc = "plugin", !.plugin = gen.plugin + 1,
                               !.metrics = << >>, !.next = 0,
                               !.genCount = gen.genCount + 1]
    /\ enqueued' = enqueued + 1
    /\ UNCHANGED <<envVars, limit, mainpc, exit, hosts, con, err, ackChan,
                   inflight, countAck, senderVars, ackpc, cancel, cancelMesg,
                   wait, waitb, consumed, writers, linkUsers, conCloses,
                   dequeued, tokens>>

\* Lines 420-427: mesgChan <- msg for the next metric of range metrics, and
\* genCount = genCount + 1.  The send blocks while the channel is full.
GenEnqueue ==
    /\ Running /\ gen.pc = "enqueue"
    /\ Len(mesgChan) < MesgChanCap
    /\ mesgChan' = Append(mesgChan, gen.metrics[gen.next + 1])
    /\ gen' = IF gen.next + 1 < len(gen.metrics)
              THEN [gen EXCEPT !.next = gen.next + 1,
                               !.genCount = gen.genCount + 1]
              ELSE [gen EXCEPT !.pc = "plugin", !.plugin = gen.plugin + 1,
                               !.metrics = << >>, !.next = 0,
                               !.genCount = gen.genCount + 1]
    /\ enqueued' = enqueued + 1
    /\ UNCHANGED <<envVars, limit, mainpc, exit, hosts, con, err, ackChan,
                   inflight, countAck, senderVars, ackpc, cancel, cancelMesg,
                   wait, waitb, consumed, writers, linkUsers, conCloses,
                   dequeued, tokens>>

\* Lines 430-438: the end of a tick; in batch mode time.Sleep(interval);
\* then i++.
GenSleep ==
    /\ Running /\ gen.pc = "sleep"
    /\ gen' = [gen EXCEPT !.pc = "check", !.i = gen.i + 1,
                          !.sleeps = IF cfg.spread THEN @ ELSE @ + 1]
    /\ UNCHANGED <<envVars, limit, mainpc, exit, hosts, con, err, chanVars, countAck,
                   senderVars, ackpc, cancel, cancelMesg, wait, waitb,
                   histVars>>

----------------------------------------------------------------------------
(* A sender goroutine, lines 455-482.                                      *)

\* Lines 456-459: if err != nil { log.Fatal(err) }
SenderStart(threadIndex) ==
    /\ Running /\ spc[threadIndex] = "start"
    /\ IF err
       THEN /\ exit' = "fatal"
            /\ UNCHANGED spc
       ELSE /\ spc' = [spc EXCEPT ![threadIndex] = "select"]
            /\ UNCHANGED exit
    /\ UNCHANGED <<envVars, limit, mainpc, hosts, con, err, chanVars, countAck,
                   sendCount, totalSendCount, loaded, ackpc, gen, cancel,
                   cancelMesg, wait, waitb, histVars>>

\* Mutant of SenderRecv: totalSendCount[threadIndex] is not incremented.
SenderRecv_NoTotal(threadIndex) ==
    /\ Running /\ spc[threadIndex] = "select"
    /\ mesgChan # << >>
    /\ mesgChan' = Tail(mesgChan)
    /\ inflight' = inflight \cup
          {[sender |-> threadIndex, value |-> totalSendCount[threadIndex]]}
    /\ linkUsers' = [linkUsers EXCEPT
                       ![SenderLink(threadIndex)] = @ \cup {threadIndex}]
    /\ UNCHANGED totalSendCount
    /\ writers' = [writers EXCEPT
                     !.totalSendCount[threadIndex] =
                         @ \cup {SenderTask(threadIndex)}]
    /\ loaded' = [loaded EXCEPT ![threadIndex] = sendCount[threadIndex]]
    /\ spc' = [spc EXCEPT ![threadIndex] = "count"]
    /\ dequeued' = dequeued + 1
    /\ tokens' = [tokens EXCEPT
                    ![threadIndex] = Append(@, totalSendCount[threadIndex])]
    /\ UNCHANGED <<envVars, limit, mainpc, exit, hosts, con, err, ackChan,
                   countAck, sendCount, ackpc, gen, cancel, cancelMesg, wait,
                   waitb, consumed, conCloses, enqueued>>

\* Lines 463-469, up to the read of sendCount[threadIndex] by ++:
\* receive a message, s.SendAsync(msg, ackChan, totalSendCount[threadIndex]),
\* totalSendCount[threadIndex]++.
SenderRecv(threadIndex) ==
    /\ Running /\ spc[threadIndex] = "select"
    /\ mesgChan # << >>
    /\ mesgChan' = Tail(mesgChan)
    /\ inflight' = inflight \cup
          {[sender |-> threadIndex, value |-> totalSendCount[threadIndex]]}
    /\ linkUsers' = [linkUsers EXCEPT
                       ![SenderLink(threadIndex)] = @ \cup {threadIndex}]
    /\ totalSendCount' = [totalSendCount EXCEPT ![threadIndex] = @ + 1]
    /\ writers' = [writers EXCEPT
                     !.totalSendCount[threadIndex] =
                         @ \cup {SenderTask(threadIndex)}]
    /\ loaded' = [loaded EXCEPT ![threadIndex] = sendCount[threadIndex]]
    /\ spc' = [spc EXCEPT ![threadIndex] = "count"]
    /\ dequeued' = dequeued + 1
    /\ tokens' = [tokens EXCEPT
                    ![threadIndex] = Append(@, totalSendCount[threadIndex])]
    /\ UNCHANGED <<envVars, limit, mainpc, exit, hosts, con, err, ackChan,
                   countAck, sendCount, ackpc, gen, cancel, cancelMesg, wait,
                   waitb, consumed, conCloses, enqueued>>

\* Line 469, the write of sendCount[threadIndex] by ++.
SenderCount(threadIndex) ==
    /\ Running /\ spc[threadIndex] = "count"
    /\ sendCount' = [sendCount EXCEPT ![threadIndex] = loaded[threadIndex] + 1]
    /\ writers' = [writers EXCEPT
                     !.sendCount[threadIndex] =
                         @ \cup {SenderTask(threadIndex)}]
    /\ loaded' = [loaded EXCEPT ![threadIndex] = 0]
    /\ spc' = [spc EXCEPT ![threadIndex] = "report"]
    /\ UNCHANGED <<envVars, limit, mainpc, exit, hosts, con, err, chanVars,
                   countAck, totalSendCount, ackpc, gen, cancel, cancelMesg,
                   wait, waitb, consumed, linkUsers, conCloses, enqueued,
                   dequeued, tokens>>

\* Mutant of Reports: the report comes one message late.
Reports_Late(threadIndex) ==
    /\ cfg.showTimePerMessages # -1
    /\ sendCount[threadIndex] = cfg.showTimePerMessages + 1

\* Line 470: the report is due.
Reports(threadIndex) ==
    /\ cfg.showTimePerMessages # -1
    /\ sendCount[threadIndex] = cfg.showTimePerMessages

\* Lines 470-475: when the counter has reached -timepermesgs, the report
\* and sendCount[threadIndex] = 0; then back to the select.
SenderReport(threadIndex) ==
    /\ Running /\ spc[threadIndex] = "report"
    /\ IF Reports(threadIndex)
       THEN sendCount' = [sendCount EXCEPT ![threadIndex] = 0]
       ELSE UNCHANGED sendCount
    /\ spc' = [spc EXCEPT ![threadIndex] = "select"]
    /\ UNCHANGED <<envVars, limit, mainpc, exit, hosts, con, err, chanVars,
                   countAck, totalSendCount, loaded, ackpc, gen, cancel,
                   cancelMesg, wait, waitb, histVars>>

\* Mutant of SenderCancel: the goroutine returns without waitb.Done().
SenderCancel_NoDone(threadIndex) ==
    /\ Running /\ spc[threadIndex] = "select"
    /\ cancelMesg
    /\ spc' = [spc EXCEPT ![threadIndex] = "done"]
    /\ UNCHANGED <<envVars, limit, mainpc, exit, hosts, con, err, chanVars, countAck,
                   sendCount, totalSendCount, loaded, ackpc, gen, cancel,
                   cancelMesg, wait, waitb, histVars>>

\* Lines 477-479: case <-cancelMesg: waitb.Done(); return
SenderCancel(threadIndex) ==
    /\ Running /\ spc[threadIndex] = "select"
    /\ cancelMesg
    /\ waitb' = waitb - 1
    /\ spc' = [spc EXCEPT ![threadIndex] = "done"]
    /\ UNCHANGED <<envVars, limit, mainpc, exit, hosts, con, err, chanVars, countAck,
                   sendCount, totalSendCount, loaded, ackpc, gen, cancel,
                   cancelMesg, wait, histVars>>

----------------------------------------------------------------------------
(* The transport: every SendAsync produces one Outcome on ackChan.         *)

\* The transport reports the outcome of one send that is in flight, of a
\* kind the broker produces, when ackChan has room.
TransportOutcome ==
    /\ Running
    /\ Len(ackChan) < AckChanCap
    /\ \E d \in inflight, kind \in broker :
         /\ ackChan' = Append(ackChan, Outcome(kind, d.value))
         /\ inflight' = inflight \ {d}
    /\ UNCHANGED <<envVars, limit, mainpc, exit, hosts, con, err, mesgChan, countAck,
                   senderVars, ackpc, gen, cancel, cancelMesg, wait, waitb,
                   histVars>>

----------------------------------------------------------------------------
(* The acknowledgement goroutine, lines 486-503.                           *)

\* What the goroutine does with an outcome: "fatal" (log.Fatalf), "warn"
\* (log.Printf) or "count" (countAck = countAck + 1).  Lines 490-497.
\* Mutant: every outcome without an error is counted.
Classify_CountsAll(out) ==
    IF out.Error # "nil" THEN "fatal" ELSE "count"

Classify(out) ==
    IF out.Error # "nil" THEN "fatal"
    ELSE IF out.Status # "Accepted" THEN "warn"
    ELSE "count"

\* Mutant of AckRecv: an accepted outcome is counted twice.
AckRecv_CountsTwice ==
    /\ Running /\ ackpc = "select"
    /\ ackChan # << >>
    /\ LET out == Head(ackChan)
       IN  /\ ackChan' = Tail(ackChan)
           /\ consumed' = consumed (+)
                 SetToBag({[Status |-> out.Status, Error |-> out.Error]})
           /\ IF Classify(out) = "fatal"
              THEN /\ exit' = "fatal"
                   /\ UNCHANGED <<countAck, writers>>
              ELSE IF Classify(out) = "warn" \/ cfg.modeString = "limit"
              THEN UNCHANGED <<exit, countAck, writers>>
              ELSE /\ countAck' = countAck + 2
                   /\ writers' = [writers EXCEPT !.countAck = @ \cup {AckTask}]
                   /\ UNCHANGED exit
    /\ UNCHANGED <<envVars, limit, mainpc, hosts, con, err, mesgChan, inflight,
                   senderVars, ackpc, gen, cancel, cancelMesg, wait, waitb,
                   linkUsers, conCloses, enqueued, dequeued, tokens>>

\* Lines 489-497: case out := <-ackChan.  The acknowledgement goroutine of
\* getMessagesLimit (lines 264-270) is the same without the counting.
AckRecv ==
    /\ Running /\ ackpc = "select"
    /\ ackChan # << >>
    /\ LET out == Head(ackChan)
       IN  /\ ackChan' = Tail(ackChan)
           /\ consumed' = consumed (+)
                 SetToBag({[Status |-> out.Status, Error |-> out.Error]})
           /\ IF Classify(out) = "fatal"
              THEN /\ exit' = "fatal"
                   /\ UNCHANGED <<countAck, writers>>
              ELSE IF Classify(out) = "warn" \/ cfg.modeString = "limit"
              THEN UNCHANGED <<exit, countAck, writers>>
              ELSE /\ countAck' = countAck + 1
                   /\ writers' = [writers EXCEPT !.countAck = @ \cup {AckTask}]
                   /\ UNCHANGED exit
    /\ UNCHANGED <<envVars, limit, mainpc, hosts, con, err, mesgChan, inflight,
                   senderVars, ackpc, gen, cancel, cancelMesg, wait, waitb,
                   linkUsers, conCloses, enqueued, dequeued, tokens>>

\* Lines 498-500 (and 271-273): case <-cancel: waitb.Done(); return
AckCancel ==
    /\ Running /\ ackpc = "select"
    /\ cancel
    /\ waitb' = waitb - 1
    /\ ackpc' = "done"
    /\ UNCHANGED <<envVars, limit, mainpc, exit, hosts, con, err, chanVars, countAck,
                   senderVars, gen, cancelMesg, cancel, wait, histVars>>

----------------------------------------------------------------------------
(* Limit mode: getMessagesLimit, lines 203-294.                            *)

\* Mutant of dummyPlugin: a template with one entry on each axis.
dummyPlugin_WithAxes ==
    [zeroPlugin EXCEPT !.hostname = << <<"testHost">> >>,
                       !.name = <<"testPlugin">>,
                       !.interval = 10,
                       !.mtype = << <<"testType">> >>,
                       !.pluginInstance = <<EmptyString>>,
                       !.typeInstance = <<EmptyString>>]

\* dummyPlugin, lines 205-209: no values and no axes.
dummyPlugin ==
    [zeroPlugin EXCEPT !.hostname = << <<"testHost">> >>,
                       !.name = <<"testPlugin">>,
                       !.interval = 10]

\* Lines 211-232 and 260: dial (log.Fatal on failure), make ackChan and the
\* cancel channels, start the sender goroutine and the acknowledgement
\* goroutine.
LimitStart ==
    /\ Running /\ mainpc = "limit"
    /\ \E dialed \in BOOLEAN :
         IF ~dialed
         THEN /\ exit' = "fatal"
              /\ UNCHANGED <<mainpc, con, limit, ackpc, waitb>>
         ELSE /\ con' = "open"
              /\ waitb' = waitb + 2
              /\ limit' = [limit EXCEPT !.pc = "open"]
              /\ ackpc' = "select"
              /\ mainpc' = "limitSleep"
              /\ UNCHANGED exit
    /\ UNCHANGED <<envVars, hosts, err, chanVars, countAck, senderVars, gen,
                   cancel, cancelMesg, wait, histVars>>

\* Lines 235-239: s, err := con.Sender(...); log.Fatal on an error.
LimitSenderOpen ==
    /\ Running /\ limit.pc = "open"
    /\ \E linkErr \in BOOLEAN :
         IF linkErr
         THEN /\ exit' = "fatal"
              /\ UNCHANGED limit
         ELSE /\ limit' = [limit EXCEPT !.pc = "loop"]
              /\ UNCHANGED exit
    /\ UNCHANGED <<envVars, mainpc, hosts, con, err, chanVars, countAck,
                   senderVars, ackpc, gen, cancel, cancelMesg, wait, waitb,
                   histVars>>

\* Lines 240-256, one iteration of the outer loop:
\* metrics := dummyPlugin.GetMetricMessage(), and for every metric
\* s.SendAsync(msg, ackChan, body), countSent = countSent + 1 and the
\* select on cancelMesg, which returns once cancelMesg is closed.  The
\* loop has no end; the model follows it for MaxRounds iterations.
LimitIterate ==
    /\ Running /\ limit.pc = "loop"
    /\ limit.rounds < MaxRounds
    /\ LET metrics == GetMetricMessage(dummyPlugin, rnd).buffers
           n == IF cancelMesg /\ len(metrics) > 0 THEN 1 ELSE len(metrics)
       IN  /\ inflight' = inflight \cup
                 { [sender |-> "limit", value |-> <<limit.countSent + k, metrics[k]>>] :
                     k \in 1..n }
           /\ limit' = [limit EXCEPT
                           !.pc = IF cancelMesg /\ n > 0 THEN "done" ELSE "loop",
                           !.countSent = @ + n,
                           !.selects = @ + n,
                           !.rounds = @ + 1]
           /\ waitb' = IF cancelMesg /\ n > 0 THEN waitb - 1 ELSE waitb
    /\ UNCHANGED <<envVars, mainpc, exit, hosts, con, err, mesgChan, ackChan,
                   countAck, senderVars, ackpc, gen, cancel, cancelMesg, wait,
                   histVars>>

\* Lines 277-287: after ten seconds main prints countSent and calls
\* os.Exit(0).
LimitExit ==
    /\ Running /\ mainpc = "limitSleep"
    /\ exit' = "limit"
    /\ UNCHANGED <<envVars, limit, mainpc, hosts, con, err, chanVars, countAck,
                   senderVars, ackpc, gen, cancel, cancelMesg, wait, waitb,
                   histVars>>

Limit ==
    \/ LimitStart
    \/ LimitSenderOpen
    \/ LimitIterate
    \/ LimitExit

\* The exit status of the process: 0 when main returns or calls os.Exit(0),
\* 1 after log.Fatal or os.Exit(1), 2 after a run-time panic.
ExitCode(e) ==
    CASE e = "ok" -> 0
      [] e = "limit" -> 0
      [] e = "fatal" -> 1
      [] e = "usage" -> 1
      [] e = "panic" -> 2

----------------------------------------------------------------------------
(* The specifications.                                                     *)

Main ==
    \/ MainArgs
    \/ MainGenerateHosts
    \/ MainMode
    \/ MainStart
    \/ MainWait
    \/ MainCloseCancelMesg
    \/ MainCloseCancel
    \/ MainWaitb
    \/ MainConClose

Generation ==
    \/ GenDone
    \/ GenTick
    \/ GenReset
    \/ GenHost
    \/ GenPlugin
    \/ GenEnqueue
    \/ GenSleep

Sender(threadIndex) ==
    \/ SenderStart(threadIndex)
    \/ SenderRecv(threadIndex)
    \/ SenderCount(threadIndex)
    \/ SenderReport(threadIndex)
    \/ SenderCancel(threadIndex)

Ack ==
    \/ AckRecv
    \/ AckCancel

Next ==
    \/ Main
    \/ Generation
    \/ \E threadIndex \in Workers : Sender(threadIndex)
    \/ TransportOutcome
    \/ Ack

\* The messages of one tick when nothing stops it: one uptime message per
\* host and the expansion of its synthetic plugins.
PerTick(c) ==
    c.hostsNum * (1 + (c.pluginNum - 1) * c.typeNum * c.pluginInstanceNum * c.typeInstanceNum)

\* The ticks the model follows: -send of them, MaxSend with -send -1.
Ticks(c) == IF c.metricMaxSend = -1 THEN MaxSend ELSE c.metricMaxSend

Messages(c) == PerTick(c) * Ticks(c)

\* Command lines with one entry per axis of the synthetic plugins.
Shapes(threads, thresholds, spreads) ==
    { Config(h, p, 1, 1, 1, m, r, t, s) :
        h \in 1..MaxHosts, p \in 1..MaxPlugins, m \in {-1} \cup 0..MaxSend,
        r \in thresholds, t \in threads, s \in spreads }

\* Runs whose transport reports no outcome before the run ends.
SilentConfigs ==
    { c \in Shapes(0..MaxThreads, {-1, 1, 2}, BOOLEAN) : Messages(c) <= MaxMessages }

\* Runs whose transport reports outcomes of every kind.
AckedConfigs ==
    { c \in Shapes(0..MaxAckThreads, {-1}, {FALSE}) : Messages(c) <= MaxAcked }

Init ==
    /\ NoTemplate
    /\ \/ \E c \in SilentConfigs : Start(c, {}, <<0>>)
       \/ \E c \in AckedConfigs : Start(c, OutcomeKinds, <<0>>)

Spec == Init /\ [][Next]_vars

----------------------------------------------------------------------------
(* GetMetricMessage on its own: one call on a template drawn from the      *)
(* templates of the program's shape.                                       *)

\* for k := 0; k < n; k++ { s[k] = fmt.Sprintf(format, k) } on make(n)
Axis(n, format) == fillLoop(make(n), 0, n, format).s

\* A synthetic plugin with axes of the given lengths.
Template(numTypes, numPluginInstances, numTypeInstances) ==
    [values |-> <<"randomFloatFunc">>,
     name |-> Sprintf(metricsTemplate, 1),
     hostname |-> << <<EmptyString, Sprintf(hostnameTemplate, 0)>> >>,
     dstypes |-> << <<"derive">> >>,
     dsnames |-> << <<"samples">> >>,
     interval |-> 1,
     pluginInstance |-> Axis(numPluginInstances, "pluginInst%d"),
     mtype |-> Axis(numTypes, "type%d"),
     typeInstance |-> Axis(numTypeInstances, "typInst%d")]

Templates ==
    { Template(t, p, i) : t \in 0..MaxAxis, p \in 0..MaxAxis, i \in 0..MaxAxis }
    \cup { uptimePlugin(<<EmptyString, Sprintf(hostnameTemplate, 0)>>),
           zeroPlugin, dummyPlugin }

SampleStreams == [1..2 -> 0..1]

InitExpand ==
    /\ \E r \in SampleStreams : Start(Config(1, 1, 1, 1, 1, 1, -1, 0, FALSE), {}, r)
    /\ tmpl \in Templates
    /\ expanded = [done |-> FALSE, buffers |-> << >>, calls |-> 0, panic |-> FALSE]

\* msgs := tmpl.GetMetricMessage()
Expand ==
    /\ ~expanded.done
    /\ LET r == GetMetricMessage(tmpl, rnd)
       IN  expanded' = [done |-> TRUE, buffers |-> r.buffers,
                        calls |-> r.calls, panic |-> r.panic]
    /\ UNCHANGED <<cfg, broker, rnd, tmpl, limit, mainpc, exit, hosts, con,
                   err, chanVars, countAck, senderVars, ackpc, gen, cancel,
                   cancelMesg, wait, waitb, histVars>>

NextExpand == Expand

SpecExpand == InitExpand /\ [][NextExpand]_vars

----------------------------------------------------------------------------
(* Host construction and the generation goroutine on their own: no sender  *)
(* goroutine, every combination of the generation flags.                   *)

GenConfigs ==
    { Config(h, p, t, pi, ti, 1, -1, 0, FALSE) :
        h \in 0..MaxHosts, p \in 1..MaxPlugins, t \in 0..MaxTypes,
        pi \in 0..MaxInstances, ti \in 0..MaxInstances }

InitGen ==
    /\ NoTemplate
    /\ \E c \in GenConfigs : Start(c, {}, <<0>>)

NextGen ==
    \/ Main
    \/ Generation
    \/ AckCancel

SpecGen == InitGen /\ [][NextGen]_vars

----------------------------------------------------------------------------
(* Runs whose one tick holds more messages than mesgChan: one host with    *)
(* one synthetic plugin of FloodInstances plugin instances and as many     *)
(* type instances, and no sender goroutine or one.                         *)

FloodConfigs ==
    { Config(1, 2, 1, FloodInstances, FloodInstances, 1, -1, t, FALSE) : t \in 0..1 }

InitFlood ==
    /\ NoTemplate
    /\ \/ \E c \in FloodConfigs : Start(c, {}, <<0>>)
       \/ Start(Config(1, 1, 1, 1, 1, 1, -1, 1, FALSE), OutcomeKinds, <<0>>)

SpecFlood == InitFlood /\ [][Next]_vars

----------------------------------------------------------------------------
(* Fair runs.  The Go scheduler runs every goroutine that can run, and a   *)
(* select with a ready case takes one; the transport owes no outcome by    *)
(* any time.                                                               *)

FairSender(threadIndex) == threadIndex \in Workers /\ Sender(threadIndex)

Fairness ==
    /\ WF_vars(Main)
    /\ WF_vars(Generation)
    /\ WF_vars(Ack)
    /\ \A threadIndex \in 0..MaxThreads : WF_vars(FairSender(threadIndex))

\* A run without sender goroutines and with one message more than
\* mesgChan holds: one host, its uptime plugin, MesgChanCap + 1 ticks.
UnsentConfig == Config(1, 1, 1, 1, 1, MesgChanCap + 1, -1, 0, FALSE)

\* The runs of Spec that neither spread a tick nor report the time per
\* message: neither changes what a goroutine waits for.
LiveConfigs ==
    { c \in SilentConfigs : ~c.spread /\ c.showTimePerMessages = -1 }

InitLive ==
    /\ NoTemplate
    /\ \/ \E c \in LiveConfigs \cup {UnsentConfig} : Start(c, {}, <<0>>)
       \/ \E c \in AckedConfigs : Start(c, OutcomeKinds, <<0>>)

SpecLive == InitLive /\ [][Next]_vars /\ Fairness

----------------------------------------------------------------------------
(* Every command line: the address given zero, one or two times, and the   *)
(* modes simulate, limit and one that is neither.                          *)

ModeStrings == {"simulate", "limit", "bogus"}

ModeConfigs ==
    { [c EXCEPT !.urls = u, !.modeString = m] :
        c \in AckedConfigs, u \in 0..2, m \in ModeStrings }

InitModes ==
    /\ NoTemplate
    /\ \E c \in ModeConfigs : Start(c, OutcomeKinds, <<0>>)

NextModes ==
    \/ Next
    \/ Limit

SpecModes == InitModes /\ [][NextModes]_vars

----------------------------------------------------------------------------
(* Runs of two ticks of two messages each with one sender goroutine, so    *)
(* that a message of the first tick can still be in mesgChan when the      *)
(* second tick starts.                                                     *)

TwoTickConfigs == { Config(2, 1, 1, 1, 1, 2, r, 1, FALSE) : r \in {-1, 2} }

InitTicks ==
    /\ NoTemplate
    /\ \/ \E c \in TwoTickConfigs : Start(c, {}, <<0>>)
       \/ \E c \in AckedConfigs : Start(c, OutcomeKinds, <<0>>)

SpecTicks == InitTicks /\ [][Next]_vars

----------------------------------------------------------------------------
(* The claims.                                                             *)

\* C1: for every template with axes of lengths T, P and I, GetMetricMessage
\* raises no error and returns exactly T*P*I messages (every entry of the
\* returned slice is a message the loop wrote); with an axis of length 0
\* the result is empty.
C1_ExpandCount ==
    expanded.done =>
        LET T == len(tmpl.mtype)
            P == len(tmpl.pluginInstance)
            I == len(tmpl.typeInstance)
        IN  /\ ~expanded.panic
            /\ len(expanded.buffers) = T * P * I
            /\ \A k \in 1..len(expanded.buffers) : expanded.buffers[k] # EmptyString
            /\ (T = 0 \/ P = 0 \/ I = 0) => expanded.buffers = << >>

\* C1 witness: a call on a template with three axes of different lengths
\* has returned its six messages.
C1_Witness ==
    /\ expanded.done
    /\ len(tmpl.mtype) = 2
    /\ len(tmpl.pluginInstance) = 3
    /\ len(tmpl.typeInstance) = 1
    /\ len(expanded.buffers) = 6

\* C2: for any generation parameters with N >= 1 plugins per host, host
\* construction completes without error and one tick enqueues exactly
\* H * (1 + (N-1) * T * P * I) messages.  (The original claim; the code
\* violates it: generateHosts panics when -types exceeds -typeinstances or
\* -instances, as with H=2, N=2, T=3, I=1, P=1.)
C2_TickCount ==
    /\ exit # "panic"
    /\ gen.pc = "sleep" => gen.genCount = PerTick(cfg)

\* C3: mesgChan never holds more than its capacity; the generation
\* goroutine at its channel send can proceed exactly when the channel is
\* not full, so it blocks on a full channel and resumes once a message has
\* been received from it; with no sender goroutine it is blocked when it
\* has enqueued exactly MesgChanCap messages; while the channel is full the
\* only change to it is a receive.
C3_Backpressure ==
    /\ [](/\ Len(mesgChan) <= MesgChanCap
          /\ (Running /\ gen.pc = "enqueue") =>
                (ENABLED GenEnqueue <=> Len(mesgChan) < MesgChanCap)
          /\ (Running /\ gen.pc = "enqueue" /\ cfg.sendThreads = 0
                /\ ~ENABLED GenEnqueue) =>
                   /\ Len(mesgChan) = MesgChanCap
                   /\ gen.i * PerTick(cfg) + gen.genCount = MesgChanCap)
    /\ [][Len(mesgChan) = MesgChanCap =>
            (mesgChan' = mesgChan \/ mesgChan' = Tail(mesgChan))]_vars

\* C3 witness: a run without sender goroutines has filled mesgChan and its
\* generation goroutine, with messages left to enqueue, is blocked.
C3_Witness ==
    /\ cfg.sendThreads = 0
    /\ Len(mesgChan) = MesgChanCap
    /\ gen.pc = "enqueue"
    /\ gen.genCount = MesgChanCap
    /\ ~ENABLED GenEnqueue

\* The outcomes of a kind the acknowledgement goroutine has read.
Read(kind) == CopiesIn(kind, consumed)

\* C4: countAck equals the number of outcomes read so far that carry no
\* error and have status Accepted; reading an outcome with no error and
\* another status leaves countAck unchanged and the process running;
\* reading an outcome with an error ends the process without a change of
\* countAck, so with an error among N outcomes read countAck is below N.
C4_AckAccounting ==
    /\ [](/\ countAck = Read(Accepted)
          /\ Read(Failed) > 0 => /\ exit = "fatal"
                                 /\ countAck < BagCardinality(consumed))
    /\ [][/\ Read(Rejected)' > Read(Rejected) =>
                countAck' = countAck /\ exit' = "running"
          /\ Read(Failed)' > Read(Failed) =>
                countAck' = countAck /\ exit' = "fatal"
          /\ Read(Accepted)' > Read(Accepted) =>
                countAck' = countAck + 1 /\ exit' = "running"]_vars

\* C4 witness: one accepted outcome and then one error outcome have been
\* read; the process has ended with countAck = 1.
C4_Witness ==
    /\ Read(Accepted) = 1
    /\ Read(Failed) = 1
    /\ countAck = 1
    /\ exit = "fatal"

\* An outcome carrying an error has been produced by the transport.
ErrorProduced ==
    \/ \E k \in 1..Len(ackChan) : ackChan[k].Error # "nil"
    \/ Read(Failed) > 0

\* C5 (the original claim): no execution in which the transport produced an
\* outcome carrying an error ends in normal completion.  (The code violates
\* it: main closes cancel as soon as the generation goroutine has finished,
\* and the acknowledgement goroutine returns on cancel with the outcome
\* still unread in ackChan.)
C5_ErrorAlwaysFatal == exit = "ok" => ~ErrorProduced

\* C6: the shutdown signal is broadcast only after the generation
\* goroutine has finished; the connection is closed only after every
\* sender goroutine and the acknowledgement goroutine have signalled their
\* exit; it is closed at most once, and no send is issued once it is closed.
C6_ShutdownOrder ==
    /\ [](/\ (cancelMesg \/ cancel) => gen.pc = "done"
          /\ con = "closed" => /\ \A w \in Workers : spc[w] = "done"
                               /\ ackpc = "done"
                               /\ waitb = 0
          /\ conCloses <= 1)
    /\ [][totalSendCount' # totalSendCount => con = "open" /\ con' = "open"]_vars

\* C6 witness: a run with two sender goroutines, of which one has sent, has
\* closed the connection.
C6_Witness ==
    /\ con = "closed"
    /\ cfg.sendThreads = 2
    /\ totalSendCount[1] >= 1

\* The run has completed: generation finished, shutdown broadcast, every
\* goroutine exited, connection closed.
Completed ==
    /\ gen.pc = "done"
    /\ cancelMesg /\ cancel
    /\ \A w \in Workers : spc[w] = "done"
    /\ ackpc = "done"
    /\ con = "closed"

FitsChannel == \E c \in {cfg} : Messages(c) <= MesgChanCap

C9_LinkOwnership == \A l \in Links : Cardinality(linkUsers[l]) <= 1

\* C10 (the original claim): sendCount[w] and totalSendCount[w] are written
\* only by sender goroutine w, and countAck only by the acknowledgement
\* goroutine; each has at most one writing goroutine.
C10_SingleWriter ==
    /\ \A w \in Workers :
          /\ writers.sendCount[w] \subseteq {SenderTask(w)}
          /\ writers.totalSendCount[w] \subseteq {SenderTask(w)}
    /\ writers.countAck \subseteq {AckTask}

\* A process started with a command line main rejects.
BadCommandLine ==
    \/ cfg.urls # 1
    \/ cfg.modeString \notin {"simulate", "limit"}

\* No goroutine of either mode has been started.
NoWorkerStarted ==
    /\ gen.pc = "idle"
    /\ \A w \in Workers : spc[w] = "idle"
    /\ ackpc = "idle"
    /\ limit.pc = "idle"

\* C11 (the original claim): when the mode is neither simulate nor limit,
\* or the address is missing or given more than once, no generation,
\* sender or acknowledgement goroutine is ever started and the process
\* exits with a non-zero status.  (The code violates it: with an invalid
\* mode main returns at line 353, and the exit status is 0.)
C11_ConfigErrorExit ==
    BadCommandLine =>
        /\ NoWorkerStarted
        /\ con = "none"
        /\ exit # "running" => ExitCode(exit) # 0

\* C12 (the original claim): one call of GetMetricMessage invokes each
\* value function of the plugin exactly once, however many messages it
\* produces, and all its messages carry the same values, dstypes and
\* dsnames.  (The code violates it: line 92 calls the value functions
\* inside the innermost loop, once per message.)
C12_ValuesOnce ==
    (expanded.done /\ ~expanded.panic) =>
        /\ expanded.calls = len(tmpl.values)
        /\ \A j, k \in 1..len(expanded.buffers) :
              /\ expanded.buffers[j][1] = expanded.buffers[k][1]
              /\ expanded.buffers[j][2] = expanded.buffers[k][2]
              /\ expanded.buffers[j][3] = expanded.buffers[k][3]

\* The sum of the counters of all sender goroutines.
RECURSIVE SumTo(_, _)
SumTo(counts, n) == IF n = 0 THEN 0 ELSE counts[n - 1] + SumTo(counts, n - 1)

Total(counts) == SumTo(counts, Cardinality(DOMAIN counts))

\* The number of SendAsync calls of the sender goroutines.
SendsIssued == Total([w \in Workers |-> Len(tokens[w])])

\* C13 (the original claim): every message sent on mesgChan is received
\* and passed to SendAsync by exactly one sender goroutine, and none is
\* left in mesgChan when a bounded run with at least one sender goroutine
\* has shut down.  (The code violates
\* the second part: main closes cancelMesg as soon as the generation
\* goroutine has finished, and a sender goroutine whose select takes that
\* case returns with messages still in mesgChan.)
C13_ExactlyOnce ==
    /\ enqueued = Len(mesgChan) + dequeued
    /\ dequeued = SendsIssued
    /\ (cfg.metricMaxSend >= 0 /\ cfg.sendThreads >= 1 /\ con = "closed") =>
          /\ mesgChan = << >>
          /\ SendsIssued = enqueued

\* C14 (the original claim): the k-th send of a sender goroutine
\* (k = 0, 1, ...) carries the Value k, its totalSendCount before the
\* increment; every send adds exactly one to totalSendCount[w] and exactly
\* one to sendCount[w].  (The code violates the last part: the generation
\* goroutine stores 0 into sendCount[w] between the read and the write of
\* the sender's sendCount[w]++, which then stores the old value plus one.)
C14_Tokens ==
    /\ [](\A w \in Workers :
            /\ Len(tokens[w]) = totalSendCount[w]
            /\ \A k \in 1..Len(tokens[w]) : tokens[w][k] = k - 1)
    /\ [][\A w \in Workers :
            /\ totalSendCount'[w] # totalSendCount[w] =>
                  totalSendCount'[w] = totalSendCount[w] + 1
            /\ (spc[w] = "count" /\ spc'[w] = "report") =>
                  sendCount'[w] = sendCount[w] + 1]_vars

\* The messages a call of GetMetricMessage on m is to return: the message
\* at index ((t * P) + p) * I + i is built from mtype[t], pluginInstance[p]
\* and typeInstance[i].
ExpectedMessages(m, samples) ==
    LET T == len(m.mtype)
        P == len(m.pluginInstance)
        I == len(m.typeInstance)
    IN  [n \in 1..(T * P * I) |->
            MetricString(m, samples, (n - 1) * len(m.values),
                         (n - 1) \div (P * I), ((n - 1) \div I) % P, (n - 1) % I)]

\* The messages of one tick: host by host, plugin by plugin.
RECURSIVE PluginsFrom(_, _)
PluginsFrom(h, j) ==
    IF j >= Cardinality(DOMAIN hosts[h].plugins) THEN << >>
    ELSE ExpectedMessages(hosts[h].plugins[j], rnd) \o PluginsFrom(h, j + 1)

RECURSIVE HostsFrom(_)
HostsFrom(h) ==
    IF h >= cfg.hostsNum THEN << >> ELSE PluginsFrom(h, 0) \o HostsFrom(h + 1)

\* C15: the messages GetMetricMessage returns are ordered by type, then
\* plugin instance, then type instance (index ((t * P) + p) * I + i), and
\* the generation goroutine sends them on mesgChan in that order, host by
\* host and plugin by plugin: in a run of one tick without sender
\* goroutines mesgChan is always a prefix of the tick's messages in that
\* order, and the whole of them at the end of the tick.
C15_ExpansionOrder ==
    gen.pc \notin {"idle", "check"} =>
        /\ gen.pc = "enqueue" =>
              gen.metrics = ExpectedMessages(hosts[gen.host].plugins[gen.plugin], rnd)
        /\ Len(mesgChan) = enqueued
        /\ mesgChan = SubSeq(HostsFrom(0), 1, enqueued)
        /\ gen.pc = "sleep" => mesgChan = HostsFrom(0)

\* C15 witness: a tick of two hosts with one synthetic plugin of two types,
\* two plugin instances and two type instances has been enqueued.
C15_Witness ==
    /\ gen.pc = "sleep"
    /\ cfg.hostsNum = 2 /\ cfg.pluginNum = 2
    /\ cfg.typeNum = 2 /\ cfg.pluginInstanceNum = 2 /\ cfg.typeInstanceNum = 2
    /\ Len(mesgChan) = 18

\* C16 (the original claim): in spread mode the generation goroutine
\* enqueues one host's messages and only then sleeps, so when it is at
\* host number h of a tick it has slept h times in that tick, and not at
\* all before the first host's messages; in batch mode it does not sleep
\* between hosts and sleeps once per tick, after the last host.  (The code
\* violates the spread part: sleepFunc() is called at line 411, before the
\* plugins of the host are expanded.)
C16_SpreadOrder ==
    /\ (cfg.spread /\ gen.pc \in {"plugin", "enqueue"}) => gen.sleeps = gen.host
    /\ (cfg.spread /\ gen.genCount = 0) => gen.sleeps = 0
    /\ (~cfg.spread /\ gen.pc \in {"reset", "host", "plugin", "enqueue", "sleep"}) =>
          gen.sleeps = 0
    /\ (~cfg.spread /\ gen.pc \in {"check", "done"} /\ gen.i >= 1) => gen.sleeps = 1

\* C17: with -timepermesgs R > 0 a sender goroutine reports and resets
\* sendCount[w] exactly when it finds sendCount[w] = R after a send, so
\* whenever it is back at its select 0 <= sendCount[w] < R; with R = -1 no
\* sender goroutine resets its counter.
C17_ReportThreshold ==
    /\ [](\A w \in Workers :
            (cfg.showTimePerMessages > 0 /\ spc[w] \in {"select", "done"}) =>
                sendCount[w] \in 0..(cfg.showTimePerMessages - 1))
    /\ [][\A w \in Workers :
            (spc[w] = "report" /\ spc'[w] = "select") =>
                IF cfg.showTimePerMessages > 0
                   /\ sendCount[w] = cfg.showTimePerMessages
                THEN sendCount'[w] = 0
                ELSE sendCount'[w] = sendCount[w]]_vars

\* C17 witness: with R = 2 a sender goroutine has sent two messages of the
\* first tick and is back at its select with its counter reset.
C17_Witness ==
    /\ cfg.showTimePerMessages = 2
    /\ gen.i = 0
    /\ cfg.sendThreads >= 1
    /\ totalSendCount[0] = 2
    /\ sendCount[0] = 0
    /\ spc[0] = "select"

\* C18: the messages sent on mesgChan so far are those in the channel plus
\* those received by the sender goroutines; the sum of totalSendCount is
\* the number of SendAsync calls (a receive, its SendAsync and the
\* increment being one step of the sender); no totalSendCount[w] ever
\* decreases.
C18_Conservation ==
    /\ [](/\ enqueued = Len(mesgChan) + dequeued
          /\ Total(totalSendCount) = SendsIssued
          /\ dequeued = SendsIssued)
    /\ [][\A w \in Workers : totalSendCount'[w] >= totalSendCount[w]]_vars

\* C18 witness: of two messages enqueued one has been sent, by the second
\* of two sender goroutines, and one is in the channel.
C18_Witness ==
    /\ enqueued = 2
    /\ Len(mesgChan) = 1
    /\ cfg.sendThreads = 2
    /\ totalSendCount[0] = 0
    /\ totalSendCount[1] = 1

C20_LimitSendsNothing ==
    cfg.modeString = "limit" =>
        /\ dummyPlugin.mtype = nil
        /\ dummyPlugin.pluginInstance = nil
        /\ dummyPlugin.typeInstance = nil
        /\ limit.pc # "idle" => GetMetricMessage(dummyPlugin, rnd).buffers = << >>
        /\ limit.countSent = 0
        /\ limit.selects = 0
        /\ limit.pc # "done"
        /\ inflight = {}
        /\ ackChan = << >>
        /\ consumed = EmptyBag
        /\ SendsIssued = 0

\* C20 witness: a limit run whose sender goroutine has gone round its loop
\* has ended with os.Exit(0).
C20_Witness ==
    /\ cfg.modeString = "limit"
    /\ limit.rounds >= 2
    /\ limit.countSent = 0
    /\ exit = "limit"

====
